---------------------------- MODULE Spec2Model ----------------------------
(***************************************************************************)
(* kuberirust: the sparse voxel world (model.rs), the mesh set-up of       *)
(* Model::load (model.rs) and the voxel ray picker (mouse_picker.rs).      *)
(*                                                                         *)
(* Three specifications share the module's variables:                      *)
(*   SpecWorld  block/chunk inserts into World and lookups by global       *)
(*              coordinate;                                                *)
(*   SpecPick   MousePicker::get_model_coordinates_for_voxel_under_mouse,  *)
(*              one step per loop iteration;                               *)
(*   SpecLoad   Model::load, with Model::build_random_chunk one step per   *)
(*              sample drawn.                                              *)
(*                                                                         *)
(* Coordinates are triples <<x, y, z>>.  An Option<T> is None or Some(v).  *)
(***************************************************************************)
EXTENDS Integers, Sequences, FiniteSets, TLC

VARIABLES
    chunksize,      \* CHUNKSIZE, the side length of a chunk
    chunks,         \* World.chunks : HashMap<[u8;3], Chunk>, Chunk.blocks inlined
    pc,             \* position of the running operation
    last,           \* World: the last block insert made, Some([C, L, T]), or None
    ninserts,       \* World: the number of inserts made
    q,              \* Some(the last global coordinate looked up), or None
    qres,           \* what that lookup returned
    camera,         \* Pick: camera.position in half voxels (2 * position)
    ray_wor,        \* Pick: the ray direction, an integer vector (not yet normalised)
    current_block,  \* Pick: current_block
    ray_start,      \* Pick: ray_start
    step,           \* Pick: <<step_x, step_y, step_z>>
    t_max,          \* Pick: <<t_max_x, t_max_y, t_max_z>>
    t_delta,        \* Pick: <<t_delta_x, t_delta_y, t_delta_z>>
    counter,        \* Pick: counter
    found,          \* Pick: found
    result,         \* Pick: result
    rng,            \* Load: the samples the random source will deliver, read cyclically
    klm,            \* Load: <<k, l, m>> of build_random_chunk's loops
    gchunk,         \* Load: the chunk build_random_chunk is filling
    samples,        \* Load: the samples drawn so far, <<[k, l, m], val>> each
    vertices,       \* Load: VERTICES_GRASS / VERTICES_STONE / VERTICES_DIRT by BlockType
    meshes          \* Load: mesh_grass / mesh_dirt / mesh_stone by BlockType

worldVars == <<last, ninserts, q, qres>>
pickVars == <<camera, ray_wor, current_block, ray_start, step, t_max, t_delta,
              counter, found, result>>
loadVars == <<rng, klm, gchunk, samples, vertices, meshes>>
vars == <<chunksize, chunks, pc, worldVars, pickVars, loadVars>>

\* Option<T>: None, or Some(v) holding v
None == << >>

Some(v) == <<v>>

Unwrap(o) == o[1]

-----------------------------------------------------------------------------
(* Bounds of the model *)

\* the chunk keys inserts use are [0,0,0] and [MaxChunk,0,MaxChunk]
MaxChunk == 1
\* at most MaxInserts inserts are made into a World
MaxInserts == 2
\* the components of a ray direction are in -MaxDir .. MaxDir
MaxDir == 2
\* build_random_chunk is run with chunk sizes 1 .. MaxGenChunk
MaxGenChunk == 3
\* the random source delivers a sequence of StreamLen samples, over and over
StreamLen == 2

-----------------------------------------------------------------------------
(* Data model: model.rs *)

CHUNKSIZE == 16

\* the chunk sizes a run is configured with: the source's constant and the
\* size the specification's scenarios use
ChunkSizes == {3, CHUNKSIZE}

BlockType == {"GRASS", "DIRT", "STONE"}

\* u8, the component type of the keys [u8;3] of World.chunks and Chunk.blocks
U8Max == 255
U8 == 0 .. U8Max

\* a value of type [u8;3]
IsKey(k) == k[1] \in U8 /\ k[2] \in U8 /\ k[3] \in U8

\* World{chunks: HashMap::new()} and Chunk{blocks: HashMap::new()}
EmptyMap == << >>

\* HashMap::insert: the entry at key is set, replacing an entry already there
MapInsert(map, key, value) ==
    [k \in (DOMAIN map) \cup {key} |-> IF k = key THEN value ELSE map[k]]

\* chunk.blocks.insert([k, l, m], Block{blocktype})
InsertBlockSwapped(chunk, local, blocktype) ==
    MapInsert(chunk, <<local[3], local[2], local[1]>>, blocktype)

InsertBlock(chunk, local, blocktype) == MapInsert(chunk, local, blocktype)

\* world.chunks.insert(key, chunk)
InsertChunk(world, key, chunk) == MapInsert(world, key, chunk)

-----------------------------------------------------------------------------
(* Coordinate arithmetic and the lookup by global coordinate *)

FloorDiv(a, b) == a \div b

FloorMod(a, b) == a % b

\* division rounding toward zero
TruncDiv(a, b) == IF a >= 0 THEN a \div b ELSE -((-a) \div b)

\* GlobalCoord = ChunkCoord * CHUNK_SIZE + LocalCoord
ToGlobal(C, L, cs) == <<C[1] * cs + L[1], C[2] * cs + L[2], C[3] * cs + L[3]>>

ChunkCoordOf(g, cs) == <<FloorDiv(g[1], cs), FloorDiv(g[2], cs), FloorDiv(g[3], cs)>>

LocalCoordOf(g, cs) == <<FloorMod(g[1], cs), FloorMod(g[2], cs), FloorMod(g[3], cs)>>

\* a lookup that fails: the outcome of indexing a map at a key it does not hold
Panic == <<"panic">>

\* a lookup that indexes the chunk map without asking whether the chunk is there
GetBlockIndexing(world, g, cs) ==
    LET C == ChunkCoordOf(g, cs)
        L == LocalCoordOf(g, cs)
    IN  IF C \notin DOMAIN world THEN Panic
        ELSE IF L \in DOMAIN world[C] THEN Some(world[C][L]) ELSE None

\* World::GetBlockFromGlobalAddress(x, y, z): Some(block type) or None
GetBlockFromGlobalAddress(world, g, cs) ==
    LET C == ChunkCoordOf(g, cs)
        L == LocalCoordOf(g, cs)
    IN  IF C \in DOMAIN world /\ L \in DOMAIN world[C] THEN Some(world[C][L]) ELSE None

\* the blocks of a World, as <<ChunkCoord, LocalCoord>>
BlocksOf(world) == {<<C, L>> \in (DOMAIN world) \X UNION {DOMAIN world[C] : C \in DOMAIN world} :
                        L \in DOMAIN world[C]}

NumBlocks(world) == Cardinality(BlocksOf(world))

-----------------------------------------------------------------------------
(* SpecWorld: inserts into a World, and lookups by global coordinate *)

NoPick == [camera |-> None, ray_wor |-> None, current_block |-> None,
           ray_start |-> None, step |-> None, t_max |-> None, t_delta |-> None,
           counter |-> 0, found |-> FALSE, result |-> None]

NoLoad == [rng |-> << >>, klm |-> None, gchunk |-> EmptyMap, samples |-> << >>,
           vertices |-> EmptyMap, meshes |-> EmptyMap]

PickIs(r) ==
    /\ camera = r.camera /\ ray_wor = r.ray_wor /\ current_block = r.current_block
    /\ ray_start = r.ray_start /\ step = r.step /\ t_max = r.t_max
    /\ t_delta = r.t_delta /\ counter = r.counter /\ found = r.found
    /\ result = r.result

LoadIs(r) ==
    /\ rng = r.rng /\ klm = r.klm /\ gchunk = r.gchunk /\ samples = r.samples
    /\ vertices = r.vertices /\ meshes = r.meshes

\* the chunk keys and local coordinates the inserts are drawn from
InsertKeys == {<<0, 0, 0>>, <<MaxChunk, 0, MaxChunk>>}

InsertLocals(cs) == {<<0, 0, 0>>, <<cs - 1, cs - 1, cs - 1>>, <<0, 1, cs - 1>>, <<cs - 1, 0, 1>>}

\* the global coordinates the lookups are drawn from
LookupCoords(cs) == {<<x, y, z>> : x \in {-1, 0, cs}, y \in {-1, 0, cs}, z \in {-1, 0, cs}}

InitWorld ==
    /\ chunksize \in ChunkSizes
    /\ chunks = EmptyMap
    /\ pc = "world"
    /\ last = None /\ ninserts = 0 /\ q = None /\ qres = None
    /\ PickIs(NoPick)
    /\ LoadIs(NoLoad)

\* a block is put into the chunk at key C (a new chunk when the World has none
\* there) and the chunk is put into the World
WorldInsertBlock ==
    /\ pc = "world"
    /\ ninserts < MaxInserts
    /\ \E C \in InsertKeys, L \in InsertLocals(chunksize), T \in BlockType :
          /\ IsKey(C) /\ IsKey(L)
          /\ LET chunk == IF C \in DOMAIN chunks THEN chunks[C] ELSE EmptyMap
             IN  chunks' = InsertChunk(chunks, C, InsertBlock(chunk, L, T))
          /\ last' = Some([C |-> C, L |-> L, T |-> T])
    /\ ninserts' = ninserts + 1
    /\ q' = None /\ qres' = None
    /\ UNCHANGED <<chunksize, pc, pickVars, loadVars>>

\* world.chunks.insert(key, Chunk{blocks: HashMap::new()})
WorldInsertChunk ==
    /\ pc = "world"
    /\ ninserts < MaxInserts
    /\ \E C \in InsertKeys :
          /\ IsKey(C)
          /\ chunks' = InsertChunk(chunks, C, EmptyMap)
    /\ last' = None
    /\ ninserts' = ninserts + 1
    /\ q' = None /\ qres' = None
    /\ UNCHANGED <<chunksize, pc, pickVars, loadVars>>

\* model.world.GetBlockFromGlobalAddress(x, y, z), once after the inserts made
WorldLookup ==
    /\ pc = "world"
    /\ q = None
    /\ \E g \in LookupCoords(chunksize) \cup
                 {ToGlobal(last[i].C, last[i].L, chunksize) : i \in DOMAIN last} :
          /\ q' = Some(g)
          /\ qres' = GetBlockFromGlobalAddress(chunks, g, chunksize)
    /\ UNCHANGED <<chunksize, chunks, pc, last, ninserts, pickVars, loadVars>>

NextWorld == WorldInsertBlock \/ WorldInsertChunk \/ WorldLookup

SpecWorld == InitWorld /\ [][NextWorld]_vars

-----------------------------------------------------------------------------
(* SpecPick: MousePicker::get_model_coordinates_for_voxel_under_mouse      *)
(*                                                                         *)
(* The ray direction ray_wor is kept as an integer vector d; the code's    *)
(* normalised direction is d / |d|.  A distance t along the ray is kept as *)
(* the integer t * Scale / |d|, which orders the finite distances as the   *)
(* code's f32 values are ordered.                                          *)

MAX_DISTANCE == 100

\* std::f32::MAX in the model's unit: above every finite distance a traversal reaches
F32_MAX == 1000000

\* +infinity, what an f32 sum beyond std::f32::MAX is
F32_INF == 2 * F32_MAX

\* f32 addition of two distances
AddF32(a, b) == IF a + b > F32_MAX THEN F32_INF ELSE a + b

RECURSIVE Factorial(_)
Factorial(n) == IF n <= 1 THEN 1 ELSE n * Factorial(n - 1)

\* every non-zero direction component divides Scale
Scale == Factorial(MaxDir)

Abs(x) == IF x >= 0 THEN x ELSE -x

\* f32::floor of the position c/2
Floor(c) == FloorDiv(c, 2)

\* `as i32` of the position c/2: the fraction is dropped (rounding toward zero)
AsI32(c) == TruncDiv(c, 2)

\* current_block as initialised from camera.position
OriginVoxel(cam) == <<Floor(cam[1]), Floor(cam[2]), AsI32(cam[3])>>

\* step_x, step_y, step_z
StepOf(d) == IF d >= 0 THEN 1 ELSE -1

\* a t_max that is 0.0 for a zero direction component
TMaxOfZeroSentinel(start, stp, d) ==
    IF d # 0 THEN (stp * Scale) \div d ELSE 0

\* t_max_x, t_max_y, t_max_z before the loop
TMaxOf(start, stp, d) ==
    LET next_block_boundary == start + stp
    IN  IF d # 0 THEN ((next_block_boundary - start) * Scale) \div d ELSE F32_MAX

\* t_delta_x, t_delta_y, t_delta_z
TDeltaOf(stp, d) == IF d # 0 THEN (Scale \div d) * stp ELSE F32_MAX

\* the outcomes of the f32 comparison a < b of two distances, on axes with
\* direction components da and db.  Distances that differ compare as they are.
\* Equal distances on axes whose components have the same magnitude are the
\* same f32 value; on axes of different magnitude they are sums of different
\* rounded terms, and the comparison may come out either way.
Less(a, b, da, db) ==
    IF a # b THEN {a < b}
    ELSE IF Abs(da) = Abs(db) THEN {FALSE}
    ELSE {TRUE, FALSE}

\* an axis selection that tests with > where the code tests with <
SelectAxisGreater(tm, d) ==
    {IF tm[1] > tm[2] THEN (IF tm[1] > tm[3] THEN 1 ELSE 3)
                      ELSE (IF tm[2] > tm[3] THEN 2 ELSE 3)}

\* a cascade whose first inner else steps along y where the code steps along z
SelectAxisElseY(tm, d) ==
    {IF xy THEN (IF xz THEN 1 ELSE 2) ELSE (IF yz THEN 2 ELSE 3) :
        xy \in Less(tm[1], tm[2], d[1], d[2]),
        xz \in Less(tm[1], tm[3], d[1], d[3]),
        yz \in Less(tm[2], tm[3], d[2], d[3])}

\* the axis the loop body steps along: the if/else cascade on t_max
SelectAxis(tm, d) ==
    {IF xy THEN (IF xz THEN 1 ELSE 3) ELSE (IF yz THEN 2 ELSE 3) :
        xy \in Less(tm[1], tm[2], d[1], d[2]),
        xz \in Less(tm[1], tm[3], d[1], d[3]),
        yz \in Less(tm[2], tm[3], d[2], d[3])}

\* a loop condition that stops one iteration early
LoopContinuesShort(fnd, cnt) == fnd = FALSE /\ cnt < MAX_DISTANCE - 1

\* a loop condition that runs one iteration more
LoopContinuesLong(fnd, cnt) == fnd = FALSE /\ cnt <= MAX_DISTANCE

\* while found == false && counter < MAX_DISTANCE
LoopContinues(fnd, cnt) == fnd = FALSE /\ cnt < MAX_DISTANCE

\* the blocks the picked Worlds are made of: global coordinate and type
PickSites ==
    {<<<<1, 1, 1>>, "STONE">>} \cup
    {<<<<x, 1, 1>>, "GRASS">> : x \in {2, 3, MAX_DISTANCE + 1, MAX_DISTANCE + 2}}

\* the World holding the blocks of sites, put in by inserts
RECURSIVE WorldOf(_, _)
WorldOf(sites, cs) ==
    IF sites = {} THEN EmptyMap
    ELSE LET s == CHOOSE x \in sites : TRUE
             w == WorldOf(sites \ {s}, cs)
             C == ChunkCoordOf(s[1], cs)
             L == LocalCoordOf(s[1], cs)
             chunk == IF C \in DOMAIN w THEN w[C] ELSE EmptyMap
         IN  InsertChunk(w, C, InsertBlock(chunk, L, s[2]))

\* camera positions, in half voxels: (1,1,-5), (1.5,1.5,1.5), (0.5,1,1) and
\* (-1.5,-1.5,-5.5)
Cameras == {<<2, 2, -10>>, <<3, 3, 3>>, <<1, 2, 2>>, <<-3, -3, -11>>}

\* ray directions: the non-zero integer vectors with components in -MaxDir .. MaxDir
Directions == {d \in (-MaxDir .. MaxDir) \X (-MaxDir .. MaxDir) \X (-MaxDir .. MaxDir) :
                  d # <<0, 0, 0>>}

NoWorldVars == last = None /\ ninserts = 0

InitPick ==
    /\ chunksize \in ChunkSizes
    /\ \E sites \in SUBSET PickSites :
          /\ Cardinality(sites) <= MaxInserts
          /\ \A s \in sites : IsKey(ChunkCoordOf(s[1], chunksize))
          /\ chunks = WorldOf(sites, chunksize)
    /\ pc = "idle"
    /\ NoWorldVars /\ q = None /\ qres = None
    /\ PickIs(NoPick)
    /\ LoadIs(NoLoad)

\* lines 42-72: the origin voxel, the steps, t_max and t_delta
PickSetup ==
    /\ pc = "idle"
    /\ \E cam \in Cameras, d \in Directions :
          LET start == OriginVoxel(cam)
              stp == <<StepOf(d[1]), StepOf(d[2]), StepOf(d[3])>>
          IN  /\ camera' = cam
              /\ ray_wor' = d
              /\ current_block' = start
              /\ ray_start' = start
              /\ step' = stp
              /\ t_max' = <<TMaxOf(start[1], stp[1], d[1]), TMaxOf(start[2], stp[2], d[2]),
                            TMaxOf(start[3], stp[3], d[3])>>
              /\ t_delta' = <<TDeltaOf(stp[1], d[1]), TDeltaOf(stp[2], d[2]),
                              TDeltaOf(stp[3], d[3])>>
    /\ counter' = 0
    /\ found' = FALSE
    /\ result' = None
    /\ pc' = "loop"
    /\ UNCHANGED <<chunksize, chunks, worldVars, loadVars>>

\* lines 73-97: one iteration of the loop
PickStep ==
    /\ pc = "loop"
    /\ LoopContinues(found, counter)
    /\ \E axis \in SelectAxis(t_max, ray_wor) :
          LET next == [current_block EXCEPT ![axis] = @ + step[axis]]
              search_block == GetBlockFromGlobalAddress(chunks, next, chunksize)
          IN  /\ current_block' = next
              /\ t_max' = [t_max EXCEPT ![axis] = AddF32(@, t_delta[axis])]
              /\ q' = Some(next)
              /\ qres' = search_block
              /\ IF search_block = Panic
                 THEN pc' = "panicked" /\ UNCHANGED <<found, result>>
                 ELSE /\ pc' = "loop"
                      /\ found' = IF search_block # None THEN TRUE ELSE found
                      /\ result' = IF search_block # None THEN Some(next) ELSE result
    /\ counter' = counter + 1
    /\ UNCHANGED <<chunksize, chunks, last, ninserts, camera, ray_wor, ray_start, step,
                   t_delta, loadVars>>

\* line 99: the loop is left and result is returned
PickReturn ==
    /\ pc = "loop"
    /\ ~LoopContinues(found, counter)
    /\ pc' = "done"
    /\ UNCHANGED <<chunksize, chunks, worldVars, pickVars, loadVars>>

NextPick == PickSetup \/ PickStep \/ PickReturn

SpecPick == InitPick /\ [][NextPick]_vars

-----------------------------------------------------------------------------
(* Claims checked under SpecWorld *)

InRange(L, cs) == \A i \in 1 .. 3 : L[i] \in 0 .. cs - 1

\* C1: after a block of type T is inserted at (C, L), the lookup on
\* C*CHUNK_SIZE+L returns Some(T).
C1_InsertThenLookup ==
    \A i \in DOMAIN last, j \in DOMAIN q :
        q[j] = ToGlobal(last[i].C, last[i].L, chunksize) => qres = Some(last[i].T)

\* a block was inserted in a chunk other than [0,0,0], at a local coordinate
\* with three different components, and its global coordinate was looked up
C1_Witness ==
    \E i \in DOMAIN last, j \in DOMAIN q :
        /\ q[j] = ToGlobal(last[i].C, last[i].L, chunksize)
        /\ last[i].C # <<0, 0, 0>>
        /\ last[i].L = <<chunksize - 1, 0, 1>>
        /\ InRange(last[i].L, chunksize)
        /\ chunksize = CHUNKSIZE
        /\ qres = Some("STONE")

\* C2: the mapping from a GlobalCoord g to (ChunkCoord, LocalCoord) is floored:
\* the LocalCoord is in [0, CHUNK_SIZE) on each axis, ChunkCoord*CHUNK_SIZE +
\* LocalCoord = g, it inverts (C, L) -> C*CHUNK_SIZE+L, (-1,-1,-1) resolves to
\* chunk (-1,-1,-1), local (15,15,15) with CHUNK_SIZE = 16, and the chunk
\* coordinate is a key the World's chunk map can hold.
C2_FlooredInverseRepresentable ==
    /\ \A j \in DOMAIN q :
         LET C == ChunkCoordOf(q[j], chunksize)
             L == LocalCoordOf(q[j], chunksize)
         IN  /\ InRange(L, chunksize)
             /\ ToGlobal(C, L, chunksize) = q[j]
             /\ (chunksize = 16 /\ q[j] = <<-1, -1, -1>>) =>
                    (C = <<-1, -1, -1>> /\ L = <<15, 15, 15>>)
             /\ IsKey(C)
    /\ \A i \in DOMAIN last :
         LET g == ToGlobal(last[i].C, last[i].L, chunksize)
         IN  ChunkCoordOf(g, chunksize) = last[i].C /\ LocalCoordOf(g, chunksize) = last[i].L

-----------------------------------------------------------------------------
(* Claims checked under SpecPick *)

\* what the World holds at the global coordinate g
IsSolid(g) == GetBlockFromGlobalAddress(chunks, g, chunksize) # None

AlongX(o, k) == <<o[1] + k, o[2], o[3]>>

\* the ray points exactly along +X
PlusX == ray_wor[1] > 0 /\ ray_wor[2] = 0 /\ ray_wor[3] = 0

\* the ray points exactly along +Z
PlusZ == ray_wor[1] = 0 /\ ray_wor[2] = 0 /\ ray_wor[3] > 0

\* C3: the lookup is total: a coordinate whose chunk is not in the World and a
\* coordinate whose chunk holds no block at the local position both give None,
\* and no lookup the traversal makes fails.
C3_LookupTotal ==
    /\ pc # "panicked"
    /\ \A j \in DOMAIN q :
         LET C == ChunkCoordOf(q[j], chunksize)
             L == LocalCoordOf(q[j], chunksize)
         IN  /\ qres = None \/ \E T \in BlockType : qres = Some(T)
             /\ C \notin DOMAIN chunks => qres = None
             /\ (C \in DOMAIN chunks /\ L \notin DOMAIN chunks[C]) => qres = None

\* the traversal has looked up a coordinate with a negative component whose
\* chunk is not in the World, in a World that holds blocks, and went on
C3_Witness ==
    /\ pc = "loop" /\ counter = MAX_DISTANCE
    /\ NumBlocks(chunks) > 0
    /\ \E j \in DOMAIN q :
         /\ q[j][3] < 0
         /\ ChunkCoordOf(q[j], chunksize) \notin DOMAIN chunks
         /\ qres = None

\* the traversal has looked up a coordinate whose chunk is in the World but
\* holds no block there
C3_WitnessEmptyLocal ==
    \E j \in DOMAIN q :
        /\ pc = "loop"
        /\ ChunkCoordOf(q[j], chunksize) \in DOMAIN chunks
        /\ qres = None

\* C4: with the direction exactly +X, a solid voxel at o+(d,0,0) for some
\* 1 <= d <= 100 and air at o+(k,0,0) for 1 <= k < d, the traversal returns
\* Some(o+(d,0,0)) after exactly d iterations.
C4_PlusXHit ==
    (pc = "done" /\ PlusX) =>
        \A d \in 1 .. MAX_DISTANCE :
            (/\ IsSolid(AlongX(ray_start, d))
             /\ \A k \in 1 .. d - 1 : ~IsSolid(AlongX(ray_start, k)))
            => (result = Some(AlongX(ray_start, d)) /\ counter = d)

\* a +X ray has returned the block 100 voxels from its origin
C4_Witness ==
    /\ pc = "done" /\ PlusX
    /\ IsSolid(AlongX(ray_start, MAX_DISTANCE))
    /\ \A k \in 1 .. MAX_DISTANCE - 1 : ~IsSolid(AlongX(ray_start, k))
    /\ result = Some(AlongX(ray_start, MAX_DISTANCE))
    /\ counter = MAX_DISTANCE

\* a +X ray has returned the block two voxels from its origin, the origin
\* voxel being solid itself
C4_WitnessNearer ==
    /\ pc = "done" /\ PlusX
    /\ IsSolid(ray_start)
    /\ IsSolid(AlongX(ray_start, 2)) /\ ~IsSolid(AlongX(ray_start, 1))
    /\ result = Some(AlongX(ray_start, 2)) /\ counter = 2

\* C5: in a World where every lookup returns None the loop runs exactly
\* MAX_DISTANCE (100) iterations, for every origin and direction, and the
\* traversal returns None.
C5_AllAirBudget ==
    NumBlocks(chunks) = 0 =>
        /\ counter <= MAX_DISTANCE
        /\ pc = "done" => (counter = MAX_DISTANCE /\ result = None /\ found = FALSE)

\* a traversal of an empty World along a direction with three non-zero
\* components of two magnitudes has returned
C5_Witness ==
    /\ pc = "done" /\ NumBlocks(chunks) = 0
    /\ ray_wor = <<1, -2, -1>>
    /\ counter = MAX_DISTANCE /\ result = None

\* C6: one chunk at (0,0,0), CHUNK_SIZE = 3, one Stone block at local (1,1,1),
\* the camera at (1,1,-5) and the direction exactly +Z: the picker returns
\* Some((1,1,1)), and every voxel looked up before it is air.
C6_Scenario ==
    /\ chunksize = 3
    /\ DOMAIN chunks = {<<0, 0, 0>>}
    /\ DOMAIN chunks[<<0, 0, 0>>] = {<<1, 1, 1>>}
    /\ chunks[<<0, 0, 0>>][<<1, 1, 1>>] = "STONE"
    /\ camera = <<2, 2, -10>>
    /\ PlusZ

C6_EndToEnd ==
    (pc \in {"loop", "done"} /\ C6_Scenario) =>
        /\ \A j \in DOMAIN q : q[j] # <<1, 1, 1>> => qres = None
        /\ pc = "done" => result = Some(<<1, 1, 1>>)

\* the scenario's pick has returned, after looking up voxels of negative z
C6_Witness ==
    /\ pc = "done" /\ C6_Scenario
    /\ ray_start = <<1, 1, -5>>
    /\ counter = 6
    /\ result = Some(<<1, 1, 1>>)

\* C12: if a component of the ray direction is exactly 0, no iteration of the
\* loop advances the current voxel along that axis, whatever the other
\* components are and also when two axes tie on the sentinel t_max: the
\* voxel's coordinate on that axis stays the origin's.
C12_ZeroAxisNeverSteps ==
    pc \in {"loop", "done", "panicked"} =>
        \A i \in 1 .. 3 :
            ray_wor[i] = 0 =>
                /\ current_block[i] = ray_start[i]
                /\ \A j \in DOMAIN q : q[j][i] = ray_start[i]

\* a ray along -Y, the x and z axes tied on the sentinel, has used all its
\* iterations: the voxel moved 100 along y and not at all along x and z
C12_Witness ==
    /\ pc = "done" /\ counter = MAX_DISTANCE
    /\ ray_wor[1] = 0 /\ ray_wor[2] < 0 /\ ray_wor[3] = 0
    /\ t_max[1] = t_max[3]
    /\ current_block = <<ray_start[1], ray_start[2] - MAX_DISTANCE, ray_start[3]>>

\* a ray with one zero component and two non-zero ones of different magnitude
\* has used all its iterations
C12_WitnessOneZero ==
    /\ pc = "done" /\ counter = MAX_DISTANCE
    /\ ray_wor = <<-1, 0, 2>>
    /\ current_block[2] = ray_start[2]
    /\ current_block[1] < ray_start[1] /\ current_block[3] > ray_start[3]

\* C13: the ray's origin voxel is the component-wise floor of the camera
\* position on the three axes x, y and z, also for negative non-integer
\* components (z = -5.5 gives origin z = -6).
C13_OriginIsFloor ==
    pc \in {"loop", "done"} =>
        ray_start = <<Floor(camera[1]), Floor(camera[2]), Floor(camera[3])>>

\* C14: every iteration of the loop selects an axis whose current t_max is
\* minimal among the three (ties included), changes the current voxel on that
\* one axis by that axis's step sign (+1 or -1), leaves the other two
\* coordinates as they are, and adds that axis's t_delta to that axis's t_max
\* only.
C14_StepMinimalAxis ==
    [][(pc = "loop" /\ counter' = counter + 1) =>
         \E axis \in 1 .. 3 :
            /\ \A i \in 1 .. 3 : t_max[axis] <= t_max[i]
            /\ step[axis] \in {1, -1}
            /\ current_block' = [current_block EXCEPT ![axis] = @ + step[axis]]
            /\ t_max' = [t_max EXCEPT ![axis] = @ + t_delta[axis]]
            /\ t_delta' = t_delta /\ step' = step]_vars

\* three iterations have stepped once along each axis, the first choice made
\* between tied t_max values, and the x and z axes tie again
C14_Witness ==
    /\ pc = "loop" /\ counter = 3
    /\ ray_wor = <<1, 2, -1>>
    /\ current_block = <<ray_start[1] + 1, ray_start[2] + 1, ray_start[3] - 1>>
    /\ t_max[1] = t_max[3]
    /\ t_max[2] < t_max[1]

\* the Manhattan distance between two voxels
Manhattan(a, b) == Abs(a[1] - b[1]) + Abs(a[2] - b[2]) + Abs(a[3] - b[3])

\* C16: the traversal never looks up the origin voxel: the first lookup is
\* made after the first step, each coordinate only moves in its step-sign
\* direction, and after k iterations the current voxel is at Manhattan
\* distance exactly k from the origin; a returned Some(v) has v different
\* from the origin voxel (also when the origin voxel is solid), v is solid,
\* every voxel looked up before v was air, and v is at Manhattan distance at
\* most 100 from the origin.
C16_OriginNeverQueried ==
    pc \in {"loop", "done"} =>
        /\ counter = 0 => q = None
        /\ \A j \in DOMAIN q : q[j] # ray_start /\ q[j] = current_block
        /\ \A i \in 1 .. 3 : (current_block[i] - ray_start[i]) * step[i] >= 0
        /\ Manhattan(current_block, ray_start) = counter
        /\ found = FALSE => (qres = None /\ result = None)
        /\ found = TRUE => result = Some(current_block)
        /\ \A j \in DOMAIN result :
             /\ result[j] # ray_start
             /\ IsSolid(result[j])
             /\ Manhattan(result[j], ray_start) \in 1 .. MAX_DISTANCE

\* the camera sits inside a solid block and the pick has returned another
\* block, two iterations away along a direction with two non-zero components
C16_Witness ==
    /\ pc = "done"
    /\ IsSolid(ray_start)
    /\ ray_wor = <<2, 1, 0>>
    /\ counter = 2
    /\ result = Some(AlongX(ray_start, 2))

-----------------------------------------------------------------------------
(* Cube geometry: Model::create_vertices and build_vertex                  *)
(* Texture coordinates are kept in sixteenths: 0.0625 is 1, 1.0 is 16.     *)

QuadType == {"GRASS_TOP", "GRASS_SIDE", "DIRT", "STONE"}

UV == {"MIN", "MAX"}

\* a u table that was never given the grass-side rectangle
umapNoGrassSide ==
    [k \in (QuadType \ {"GRASS_SIDE"}) \X UV |->
        CASE k = <<"GRASS_TOP", "MIN">> -> 2   [] k = <<"GRASS_TOP", "MAX">> -> 3
          [] k = <<"DIRT", "MIN">> -> 2        [] k = <<"DIRT", "MAX">> -> 3
          [] k = <<"STONE", "MIN">> -> 0       [] k = <<"STONE", "MAX">> -> 1]

\* umap of build_vertex, by UVQuadKey{quadtype, uv}
umap ==
    [k \in QuadType \X UV |->
        CASE k = <<"GRASS_TOP", "MIN">> -> 2   [] k = <<"GRASS_TOP", "MAX">> -> 3
          [] k = <<"GRASS_SIDE", "MIN">> -> 3  [] k = <<"GRASS_SIDE", "MAX">> -> 4
          [] k = <<"DIRT", "MIN">> -> 2        [] k = <<"DIRT", "MAX">> -> 3
          [] k = <<"STONE", "MIN">> -> 0       [] k = <<"STONE", "MAX">> -> 1]

\* vmap of build_vertex
vmap ==
    [k \in QuadType \X UV |->
        CASE k = <<"GRASS_TOP", "MIN">> -> 6   [] k = <<"GRASS_TOP", "MAX">> -> 7
          [] k = <<"GRASS_SIDE", "MIN">> -> 15 [] k = <<"GRASS_SIDE", "MAX">> -> 16
          [] k = <<"DIRT", "MIN">> -> 15       [] k = <<"DIRT", "MAX">> -> 16
          [] k = <<"STONE", "MIN">> -> 14      [] k = <<"STONE", "MAX">> -> 15]

\* build_vertex(position, quadtype, u, v): the Vertex, or the panic it ends in
build_vertex(position, quadtype, u, v) ==
    IF <<quadtype, u>> \notin DOMAIN umap THEN [panic |-> "one"]
    ELSE IF <<quadtype, v>> \notin DOMAIN vmap THEN [panic |-> "two"]
    ELSE [position |-> position,
          tex_coords |-> <<umap[<<quadtype, u>>], 16 - vmap[<<quadtype, v>>]>>]

\* the faces in the order create_vertices pushes them
Faces == <<"top", "bottom", "right", "left", "front", "back">>

\* a face choice that gives Grass the grass-side texture on its bottom face
FaceQuadTypeSideBottom(blocktype, face) ==
    IF blocktype = "GRASS"
    THEN (IF face = "top" THEN "GRASS_TOP" ELSE "GRASS_SIDE")
    ELSE (IF blocktype = "DIRT" THEN "DIRT" ELSE "STONE")

\* temp_quadtype of create_vertices for a face
FaceQuadType(blocktype, face) ==
    LET quadtype == IF blocktype = "DIRT" THEN "DIRT" ELSE "STONE"
    IN  IF blocktype = "GRASS"
        THEN (CASE face = "top" -> "GRASS_TOP"
                [] face = "bottom" -> "DIRT"
                [] OTHER -> "GRASS_SIDE")
        ELSE quadtype

\* the 24 build_vertex calls of create_vertices: face, position, u, v
VertexCalls ==
    << <<"top", <<0, 0, 1>>, "MIN", "MIN">>,    <<"top", <<1, 0, 1>>, "MAX", "MIN">>,
       <<"top", <<1, 1, 1>>, "MAX", "MAX">>,    <<"top", <<0, 1, 1>>, "MIN", "MAX">>,
       <<"bottom", <<0, 1, 0>>, "MAX", "MIN">>, <<"bottom", <<1, 1, 0>>, "MIN", "MIN">>,
       <<"bottom", <<1, 0, 0>>, "MIN", "MAX">>, <<"bottom", <<0, 0, 0>>, "MAX", "MAX">>,
       <<"right", <<1, 0, 0>>, "MIN", "MIN">>,  <<"right", <<1, 1, 0>>, "MAX", "MIN">>,
       <<"right", <<1, 1, 1>>, "MAX", "MAX">>,  <<"right", <<1, 0, 1>>, "MIN", "MAX">>,
       <<"left", <<0, 0, 1>>, "MIN", "MAX">>,   <<"left", <<0, 1, 1>>, "MAX", "MAX">>,
       <<"left", <<0, 1, 0>>, "MAX", "MIN">>,   <<"left", <<0, 0, 0>>, "MIN", "MIN">>,
       <<"front", <<1, 1, 0>>, "MAX", "MIN">>,  <<"front", <<0, 1, 0>>, "MIN", "MIN">>,
       <<"front", <<0, 1, 1>>, "MIN", "MAX">>,  <<"front", <<1, 1, 1>>, "MAX", "MAX">>,
       <<"back", <<1, 0, 1>>, "MAX", "MAX">>,   <<"back", <<0, 0, 1>>, "MIN", "MAX">>,
       <<"back", <<0, 0, 0>>, "MIN", "MIN">>,   <<"back", <<1, 0, 0>>, "MAX", "MIN">> >>

\* create_vertices(blocktype): vertex_data
create_vertices(blocktype) ==
    [i \in DOMAIN VertexCalls |->
        LET c == VertexCalls[i]
        IN  build_vertex(c[2], FaceQuadType(blocktype, c[1]), c[3], c[4])]

CUBE_INDICES ==
    << 0, 1, 2, 2, 3, 0,       4, 5, 6, 6, 7, 4,       8, 9, 10, 10, 11, 8,
       12, 13, 14, 14, 15, 12, 16, 17, 18, 18, 19, 16, 20, 21, 22, 22, 23, 20 >>

-----------------------------------------------------------------------------
(* SpecLoad: Model::load, with Model::build_random_chunk *)

\* rng.gen_range(0, 10)
SampleRange == 0 .. 9

\* the sample the random source delivers as its n-th (from 0)
SampleAt(stream, n) == stream[(n % Len(stream)) + 1]

\* val < 8
GrassBelow == 8

\* a loop body that tests val <= 8
GenInsertInclusive(chunk, local, val) ==
    IF val <= GrassBelow THEN InsertBlock(chunk, local, "GRASS") ELSE chunk

\* the body of build_random_chunk's loops for the sample val at [k, l, m]
GenInsert(chunk, local, val) ==
    IF val < GrassBelow THEN InsertBlock(chunk, local, "GRASS") ELSE chunk

\* the [k, l, m] after local in `for k { for l { for m` over 0..cs, or None
NextLocal(local, cs) ==
    IF local[3] + 1 < cs THEN Some(<<local[1], local[2], local[3] + 1>>)
    ELSE IF local[2] + 1 < cs THEN Some(<<local[1], local[2] + 1, 0>>)
    ELSE IF local[1] + 1 < cs THEN Some(<<local[1] + 1, 0, 0>>)
    ELSE None

MeshNames == {"mesh_grass", "mesh_dirt", "mesh_stone"}

\* a mesh set-up that makes a mesh only for the block types the World holds
NewMeshesForPresentTypes ==
    LET present == {chunks[b[1]][b[2]] : b \in BlocksOf(chunks)}
        all == [mesh_grass |-> "GRASS", mesh_dirt |-> "DIRT", mesh_stone |-> "STONE"]
    IN  [n \in {x \in MeshNames : all[x] \in present} |->
            [blocktype |-> all[n], vertex_buffer |-> None, index_buffer |-> None,
             instances |-> << >>]]

\* mesh_grass, mesh_dirt and mesh_stone as created
NewMeshes ==
    [mesh_grass |-> [blocktype |-> "GRASS", vertex_buffer |-> None, index_buffer |-> None,
                     instances |-> << >>],
     mesh_dirt |-> [blocktype |-> "DIRT", vertex_buffer |-> None, index_buffer |-> None,
                    instances |-> << >>],
     mesh_stone |-> [blocktype |-> "STONE", vertex_buffer |-> None, index_buffer |-> None,
                     instances |-> << >>]]

\* the body of the loops over the chunks and their blocks: comments only
InstanceLoopBody(ms, keychunk, blockkey, block) == ms

\* for (keychunk, chunk) in chunks { for (blockkey, block) in chunk.blocks { body } }
RECURSIVE InstanceLoop(_, _, _)
InstanceLoop(ms, world, todo) ==
    IF todo = {} THEN ms
    ELSE LET b == CHOOSE x \in todo : TRUE
         IN  InstanceLoop(InstanceLoopBody(ms, b[1], b[2], world[b[1]][b[2]]), world,
                          todo \ {b})

InitLoad ==
    /\ chunksize \in 1 .. MaxGenChunk
    /\ chunks = EmptyMap
    /\ pc = "load"
    /\ NoWorldVars /\ q = None /\ qres = None
    /\ PickIs(NoPick)
    /\ rng \in [1 .. StreamLen -> SampleRange]
    /\ klm = None /\ gchunk = EmptyMap /\ samples = << >>
    /\ vertices = EmptyMap /\ meshes = EmptyMap

\* lines 340-342: VERTICES_GRASS, VERTICES_STONE, VERTICES_DIRT
LoadCreateVertices ==
    /\ pc = "load"
    /\ vertices' = [GRASS |-> create_vertices("GRASS"), STONE |-> create_vertices("STONE"),
                    DIRT |-> create_vertices("DIRT")]
    /\ pc' = "build_world"
    /\ UNCHANGED <<chunksize, chunks, worldVars, pickVars, rng, klm, gchunk,
                   samples, meshes>>

\* line 383 and the head of build_random_chunk: an empty World, an empty chunk
LoadBuildWorld ==
    /\ pc = "build_world"
    /\ chunks' = EmptyMap
    /\ gchunk' = EmptyMap
    /\ klm' = Some(<<0, 0, 0>>)
    /\ pc' = "gen"
    /\ UNCHANGED <<chunksize, worldVars, pickVars, rng, samples, vertices, meshes>>

\* lines 191-196: one sample drawn, one pass of the loop body
GenStep ==
    /\ pc = "gen"
    /\ klm # None
    /\ LET local == Unwrap(klm)
           val == SampleAt(rng, Len(samples))
       IN  /\ IsKey(local)
           /\ val \in SampleRange
           /\ gchunk' = GenInsert(gchunk, local, val)
           /\ samples' = Append(samples, <<local, val>>)
           /\ klm' = NextLocal(local, chunksize)
    /\ UNCHANGED <<chunksize, chunks, pc, worldVars, pickVars, rng, vertices, meshes>>

\* line 386: world.chunks.insert([0, 0, 0], the chunk built)
LoadInsertChunk ==
    /\ pc = "gen"
    /\ klm = None
    /\ chunks' = InsertChunk(chunks, <<0, 0, 0>>, gchunk)
    /\ pc' = "world_built"
    /\ UNCHANGED <<chunksize, worldVars, pickVars, loadVars>>

\* lines 389-391: one mesh for each block type
LoadCreateMeshes ==
    /\ pc = "world_built"
    /\ meshes' = NewMeshes
    /\ pc' = "meshes_created"
    /\ UNCHANGED <<chunksize, chunks, worldVars, pickVars, rng, klm, gchunk,
                   samples, vertices>>

\* lines 395-411: the three vertex_buffer assignments, in the code's order
LoadVertexBuffers ==
    /\ pc = "meshes_created"
    /\ LET m1 == [meshes EXCEPT !["mesh_grass"].vertex_buffer = Some(vertices["GRASS"])]
           m2 == [m1 EXCEPT !["mesh_dirt"].vertex_buffer = Some(vertices["DIRT"])]
           m3 == [m2 EXCEPT !["mesh_dirt"].vertex_buffer = Some(vertices["STONE"])]
       IN  meshes' = m3
    /\ pc' = "vertex_buffers_set"
    /\ UNCHANGED <<chunksize, chunks, worldVars, pickVars, rng, klm, gchunk,
                   samples, vertices>>

\* lines 414-430: the three index_buffer assignments
LoadIndexBuffers ==
    /\ pc = "vertex_buffers_set"
    /\ meshes' = [meshes EXCEPT !["mesh_grass"].index_buffer = Some(CUBE_INDICES),
                                 !["mesh_dirt"].index_buffer = Some(CUBE_INDICES),
                                 !["mesh_stone"].index_buffer = Some(CUBE_INDICES)]
    /\ pc' = "index_buffers_set"
    /\ UNCHANGED <<chunksize, chunks, worldVars, pickVars, rng, klm, gchunk,
                   samples, vertices>>

\* lines 432-439: the loops that are to fill the meshes' instances
LoadInstances ==
    /\ pc = "index_buffers_set"
    /\ meshes' = InstanceLoop(meshes, chunks, BlocksOf(chunks))
    /\ pc' = "loaded"
    /\ UNCHANGED <<chunksize, chunks, worldVars, pickVars, rng, klm, gchunk,
                   samples, vertices>>

NextLoad ==
    \/ LoadCreateVertices \/ LoadBuildWorld \/ GenStep \/ LoadInsertChunk
    \/ LoadCreateMeshes \/ LoadVertexBuffers \/ LoadIndexBuffers \/ LoadInstances

SpecLoad == InitLoad /\ [][NextLoad]_vars

-----------------------------------------------------------------------------
(* Claims checked under SpecLoad *)

\* the blocks of type T the World holds
BlocksOfType(T) == {b \in BlocksOf(chunks) : chunks[b[1]][b[2]] = T}

\* the meshes made for block type T
MeshesOfType(T) == {n \in DOMAIN meshes : meshes[n].blocktype = T}

\* C7: after mesh construction the number of instances of the mesh for T is
\* the number of blocks of type T in the World, and each instance's
\* translation is the block's GlobalCoord.
C7_InstancesMatchBlocks ==
    pc = "loaded" =>
        \A T \in BlockType : \A n \in MeshesOfType(T) :
            /\ Len(meshes[n].instances) = Cardinality(BlocksOfType(T))
            /\ {meshes[n].instances[i].translation : i \in DOMAIN meshes[n].instances}
                 = {ToGlobal(b[1], b[2], chunksize) : b \in BlocksOfType(T)}

MeshesMade == pc \in {"meshes_created", "vertex_buffers_set", "index_buffers_set", "loaded"}

GenFinished == pc \notin {"load", "build_world"} /\ klm = None

LocalCoords(cs) == (0 .. cs - 1) \X (0 .. cs - 1) \X (0 .. cs - 1)

\* every LocalCoord of the chunk was visited once, one sample each
VisitedOnce ==
    /\ Len(samples) = chunksize * chunksize * chunksize
    /\ \A L \in LocalCoords(chunksize) :
         Cardinality({i \in DOMAIN samples : samples[i][1] = L}) = 1
    /\ \A i \in DOMAIN samples : samples[i][2] \in SampleRange
    /\ DOMAIN gchunk \subseteq LocalCoords(chunksize)

\* C9 as stated: Grass exactly where the sample is below 3, Stone exactly
\* where it is 3, no entry elsewhere.
C9_GrassBelow3Stone3 ==
    GenFinished =>
        /\ VisitedOnce
        /\ \A i \in DOMAIN samples :
             LET L == samples[i][1]
                 val == samples[i][2]
             IN  /\ val < 3 => (L \in DOMAIN gchunk /\ gchunk[L] = "GRASS")
                 /\ val = 3 => (L \in DOMAIN gchunk /\ gchunk[L] = "STONE")
                 /\ val > 3 => L \notin DOMAIN gchunk

\* C9 as amended: each LocalCoord is visited once; Grass is inserted exactly
\* where the sample is below 8, nothing elsewhere, and no Stone anywhere.
C9_GrassBelow8 ==
    GenFinished =>
        /\ VisitedOnce
        /\ \A i \in DOMAIN samples :
             LET L == samples[i][1]
                 val == samples[i][2]
             IN  /\ val < 8 => (L \in DOMAIN gchunk /\ gchunk[L] = "GRASS")
                 /\ val >= 8 => L \notin DOMAIN gchunk

\* a chunk of side 3 was generated from samples 7 and 8: Grass at some
\* coordinates, nothing at others
C9_Witness ==
    /\ GenFinished
    /\ chunksize = 3
    /\ rng = <<7, 8>>
    /\ <<0, 0, 0>> \in DOMAIN gchunk
    /\ <<0, 0, 1>> \notin DOMAIN gchunk
    /\ Cardinality(DOMAIN gchunk) = 14

\* the texture coordinates of the four vertices of a face of a block type's cube
FaceTexCoords(blocktype, face) ==
    LET f == CHOOSE n \in DOMAIN Faces : Faces[n] = face
    IN  {vertices[blocktype][i].tex_coords : i \in (4 * (f - 1) + 1) .. (4 * f)}

\* the four corners of a face-category's rectangle in the atlas, v complemented
Corners(quadtype) ==
    {<<umap[<<quadtype, u>>], 16 - vmap[<<quadtype, v>>]>> : u \in UV, v \in UV}

SideFaces == {"right", "left", "front", "back"}

AllFaces == {Faces[n] : n \in DOMAIN Faces}

\* C10: Grass has grass-top on the top face, dirt on the bottom face and
\* grass-side on the four vertical faces; Dirt has dirt and Stone has stone on
\* all six faces; Grass and Dirt have the same texture coordinates on the
\* bottom face.
C10_FaceCategories ==
    pc # "load" =>
        /\ FaceTexCoords("GRASS", "top") = Corners("GRASS_TOP")
        /\ FaceTexCoords("GRASS", "bottom") = Corners("DIRT")
        /\ \A face \in SideFaces : FaceTexCoords("GRASS", face) = Corners("GRASS_SIDE")
        /\ \A face \in AllFaces :
             /\ FaceTexCoords("DIRT", face) = Corners("DIRT")
             /\ FaceTexCoords("STONE", face) = Corners("STONE")
        /\ \A i \in 5 .. 8 :
             vertices["GRASS"][i].tex_coords = vertices["DIRT"][i].tex_coords

\* the vertices are built: the first top vertex of Grass is at the grass-top
\* rectangle's (0.125, 1 - 0.375), the first bottom vertex of Grass and of
\* Dirt at the dirt rectangle's (0.1875, 1 - 0.9375)
C10_Witness ==
    /\ pc = "loaded"
    /\ vertices["GRASS"][1].tex_coords = <<2, 10>>
    /\ vertices["GRASS"][5].tex_coords = <<3, 1>>
    /\ vertices["DIRT"][5].tex_coords = <<3, 1>>
    /\ vertices["GRASS"][9].tex_coords = <<3, 1>>

\* the quad types create_vertices hands to build_vertex over the 24 calls
QuadTypesUsed(blocktype) ==
    {FaceQuadType(blocktype, VertexCalls[i][1]) : i \in DOMAIN VertexCalls}

\* C11: for every BlockType none of the 24 build_vertex calls of
\* create_vertices ends in panic "one" or "two": both tables have an entry
\* for every quad type and MIN/MAX, and every texture coordinate
\* (u, 1 - v_lookup) lies in [0,1]^2 (0..16 sixteenths).
C11_AtlasTotal ==
    pc # "load" =>
        /\ \A blocktype \in BlockType :
             /\ Len(vertices[blocktype]) = 24
             /\ \A i \in DOMAIN vertices[blocktype] :
                  LET vertex == vertices[blocktype][i]
                  IN  /\ "panic" \notin DOMAIN vertex
                      /\ vertex.tex_coords[1] \in 0 .. 16
                      /\ vertex.tex_coords[2] \in 0 .. 16
        /\ DOMAIN umap = QuadType \X UV
        /\ DOMAIN vmap = QuadType \X UV

\* the vertices are built and between them the three cubes use all four quad
\* types; the grass-side and dirt rectangles reach the atlas edge v = 1.0,
\* whose complement is 0
C11_Witness ==
    /\ pc = "vertex_buffers_set"
    /\ UNION {QuadTypesUsed(blocktype) : blocktype \in BlockType} = QuadType
    /\ vertices["GRASS"][11].tex_coords = <<4, 0>>
    /\ vertices["STONE"][1].tex_coords = <<0, 2>>
    /\ vertices["DIRT"][3].tex_coords = <<3, 0>>

\* C15: after load has set up the per-type meshes, each of the three meshes
\* holds the vertices create_vertices built for its own BlockType and the
\* CUBE_INDICES index list; no mesh is without a vertex buffer or carries
\* another type's vertices.
C15_MeshHoldsOwnVertices ==
    pc \in {"index_buffers_set", "loaded"} =>
        \A n \in MeshNames :
            /\ meshes[n].vertex_buffer = Some(vertices[meshes[n].blocktype])
            /\ meshes[n].index_buffer = Some(CUBE_INDICES)

=============================================================================
